---- MODULE Spec2Model ----
(***************************************************************************)
(* Model of the slack-rag-api retrieval and answering engine:              *)
(*   src/src/lib/ai/answering.ts        generateAnswerWithCitations        *)
(*   src/src/lib/retrieval/hybridSearch.ts, search.ts                      *)
(*   src/src/routes/knowledge-routes.ts  POST /ask, POST /search           *)
(*   src/unnamed/part_000 (chunkMessages, classifyMessage),                *)
(*   src/unnamed/part_001 (generateEmbedding), part_002 (insertChunk)      *)
(*   src/src/lib/processors/customerSafeDetector.ts, src/scripts/ingest.ts *)
(*                                                                         *)
(* A text is a sequence of strings.  Text produced by the language model   *)
(* is a sequence of one-character strings, so that the regular             *)
(* expressions of answering.ts are evaluated character by character.  The  *)
(* fixed messages are sequences of their sentences; no element of a fixed  *)
(* message is a bracket or a digit.                                        *)
(***************************************************************************)
EXTENDS Integers, Sequences, FiniteSets, TLC

VARIABLES store, route, search, ans, calls

vars == <<store, route, search, ans, calls>>

----------------------------------------------------------------------------
(* Bounds of the model *)

\* longest evidence list of a direct call of generateAnswerWithCitations
MaxEvidence == 2
\* number of pieces a raw generator text is concatenated from
MaxPieces == 2
\* number of rows of knowledge_chunks
MaxRows == 2
\* number of fragments the two ranked lists of a fusion are drawn from
MaxFusionIds == 3
MaxHybridRows == 3
MaxMessages == 3
\* largest limit of a request
MaxLimit == 2

----------------------------------------------------------------------------
(* Sequences *)

Range(s) == {s[i] : i \in 1..Len(s)}

RECURSIVE SeqsUpTo(_, _)
SeqsUpTo(S, n) ==
    IF n = 0 THEN {<<>>}
    ELSE LET shorter == SeqsUpTo(S, n - 1)
         IN shorter \cup {Append(s, x) : s \in {t \in shorter : Len(t) = n - 1}, x \in S}

\* Array.prototype.slice(0, n)
Slice0(s, n) == SubSeq(s, 1, IF n < Len(s) THEN n ELSE Len(s))

RECURSIVE Concat(_)
Concat(ss) == IF ss = <<>> THEN <<>> ELSE Head(ss) \o Concat(Tail(ss))

----------------------------------------------------------------------------
(* Text: the regular expression /\[(\d+)\]/g, parseInt, trim, toUpperCase, *)
(* includes                                                                *)

Digits == {"0", "1", "2", "3", "4", "5", "6", "7", "8", "9"}

DigitVal(c) ==
    CASE c = "0" -> 0 [] c = "1" -> 1 [] c = "2" -> 2 [] c = "3" -> 3
      [] c = "4" -> 4 [] c = "5" -> 5 [] c = "6" -> 6 [] c = "7" -> 7
      [] c = "8" -> 8 [] c = "9" -> 9

\* parseInt(num, 10) of a non-empty run of decimal digits
RECURSIVE ParseInt(_)
ParseInt(ds) ==
    IF ds = <<>> THEN 0
    ELSE 10 * ParseInt(SubSeq(ds, 1, Len(ds) - 1)) + DigitVal(ds[Len(ds)])

\* last index of the longest run of digits that starts at index j (j - 1 if none)
RECURSIVE DigitsEnd(_, _)
DigitsEnd(text, j) ==
    IF j <= Len(text) /\ text[j] \in Digits THEN DigitsEnd(text, j + 1) ELSE j - 1

\* /\[(\d+)\]/ matches at index i
MatchAt(text, i) ==
    /\ i <= Len(text)
    /\ text[i] = "["
    /\ LET e == DigitsEnd(text, i + 1)
       IN e >= i + 1 /\ e + 1 <= Len(text) /\ text[e + 1] = "]"

\* index of the closing bracket of the match at i
MatchEnd(text, i) == DigitsEnd(text, i + 1) + 1

\* the capture group of the match at i, parsed
MatchNum(text, i) == ParseInt(SubSeq(text, i + 1, MatchEnd(text, i) - 1))

\* the numbers of the successive matches of the global regex, scanning from i
RECURSIVE MatchNums(_, _)
MatchNums(text, i) ==
    IF i > Len(text) THEN <<>>
    ELSE IF MatchAt(text, i)
         THEN <<MatchNum(text, i)>> \o MatchNums(text, MatchEnd(text, i) + 1)
         ELSE MatchNums(text, i + 1)

\* the citation numbers that occur as tokens [n] in a text
CitationTokens(text) == Range(MatchNums(text, 1))

WhiteSpace == {" ", "\t", "\n"}

\* String.prototype.trim
RECURSIVE TrimStart(_)
TrimStart(text) ==
    IF text # <<>> /\ Head(text) \in WhiteSpace THEN TrimStart(Tail(text)) ELSE text

RECURSIVE TrimEnd(_)
TrimEnd(text) ==
    IF text # <<>> /\ text[Len(text)] \in WhiteSpace
    THEN TrimEnd(SubSeq(text, 1, Len(text) - 1)) ELSE text

Trim(text) == TrimEnd(TrimStart(text))

LowerLetters ==
    <<"a", "b", "c", "d", "e", "f", "g", "h", "i", "j", "k", "l", "m",
      "n", "o", "p", "q", "r", "s", "t", "u", "v", "w", "x", "y", "z">>

UpperLetters ==
    <<"A", "B", "C", "D", "E", "F", "G", "H", "I", "J", "K", "L", "M",
      "N", "O", "P", "Q", "R", "S", "T", "U", "V", "W", "X", "Y", "Z">>

UpperChar(c) ==
    IF \E i \in 1..26 : LowerLetters[i] = c
    THEN UpperLetters[CHOOSE i \in 1..26 : LowerLetters[i] = c]
    ELSE c

\* String.prototype.toUpperCase
ToUpperCase(text) == [i \in 1..Len(text) |-> UpperChar(text[i])]

\* String.prototype.includes
Includes(text, sub) ==
    \E i \in 1..(Len(text) - Len(sub) + 1) : SubSeq(text, i, i + Len(sub) - 1) = sub

----------------------------------------------------------------------------
(* answering.ts *)

\* a SearchResult is [id, source_id, is_customer_safe, similarity]; a
\* similarity is a fraction <<numerator, denominator>>
IsSafe(r) == r.is_customer_safe

NoInfoSentence == "I don't have enough information in the knowledge base to answer this question."

\* the answer of the empty-evidence return
EmptyEvidenceMsg ==
    <<NoInfoSentence,
      " Please try rephrasing your question or check if the information has been added to the system.">>

\* the answer of the customer-mode return without safe sources
InternalOnlyMsg ==
    <<"I found some information, but it's marked as internal-only and cannot be shared with customers.",
      " Please consider creating an approved knowledge article or contact the internal team for this information.">>

\* variant: the negative relevance return blames the visibility policy
NotRelevantMsg_Policy == InternalOnlyMsg

\* the answer of the negative relevance return
NotRelevantMsg == <<NoInfoSentence>>

\* text.replace(/\[(\d+)\]/g, ...) of cleanInvalidCitations, scanning from i
RECURSIVE CleanFrom(_, _, _)
CleanFrom(text, i, maxValidCitation) ==
    IF i > Len(text) THEN <<>>
    ELSE IF MatchAt(text, i)
         THEN LET e == MatchEnd(text, i)
                  remove == maxValidCitation = 0 \/ MatchNum(text, i) > maxValidCitation
              IN (IF remove THEN <<>> ELSE SubSeq(text, i, e))
                     \o CleanFrom(text, e + 1, maxValidCitation)
         ELSE <<text[i]>> \o CleanFrom(text, i + 1, maxValidCitation)

cleanInvalidCitations(text, maxValidCitation) == CleanFrom(text, 1, maxValidCitation)

\* the Set usedCitationIndices in insertion order: 0-based indexes of the
\* tokens of the cleaned answer that are in 1..n
RECURSIVE UsedFrom(_, _, _)
UsedFrom(nums, n, seen) ==
    IF nums = <<>> THEN <<>>
    ELSE LET citationIndex == Head(nums)
             add == citationIndex > 0 /\ citationIndex <= n /\ (citationIndex - 1) \notin seen
         IN IF add
            THEN <<citationIndex - 1>> \o UsedFrom(Tail(nums), n, seen \cup {citationIndex - 1})
            ELSE UsedFrom(Tail(nums), n, seen)

\* variant: an array instead of a Set, every in-range token adds its index
usedCitationIndices_Dup(cleanedAnswer, n) ==
    LET inRange(citationIndex) == citationIndex > 0 /\ citationIndex <= n
        nums == SelectSeq(MatchNums(cleanedAnswer, 1), inRange)
    IN [j \in 1..Len(nums) |-> nums[j] - 1]

usedCitationIndices(cleanedAnswer, n) == UsedFrom(MatchNums(cleanedAnswer, 1), n, {})

\* variant: the indexes stay in insertion order
SortAsc_Unsorted(s) == s

\* Array.prototype.sort((a, b) => a - b)
RECURSIVE SortAsc(_)
SortAsc(s) ==
    IF s = <<>> THEN <<>>
    ELSE LET m == CHOOSE x \in Range(s) : \A y \in Range(s) : x <= y
             isM(x) == x = m
             notM(x) == x # m
         IN SelectSeq(s, isM) \o SortAsc(SelectSeq(s, notM))

ToCitation(result) ==
    [source_id |-> result.source_id, is_customer_safe |-> result.is_customer_safe]

\* variant: every source handed to the generator is cited
BuildCitations_All(cleanedAnswer, relevantResults) ==
    [j \in 1..Len(relevantResults) |-> ToCitation(relevantResults[j])]

\* the citations array built from the used indexes
BuildCitations(cleanedAnswer, relevantResults) ==
    LET sorted == SortAsc(usedCitationIndices(cleanedAnswer, Len(relevantResults)))
        defined(index) == index + 1 \in 1..Len(relevantResults)
        kept == SelectSeq(sorted, defined)
    IN [j \in 1..Len(kept) |-> ToCitation(relevantResults[kept[j] + 1])]

NoResult == [answer |-> <<>>, citations |-> <<>>, mode |-> "", canCiteForCustomer |-> FALSE]

AnsOff ==
    [pc |-> "off", query |-> "", searchResults |-> <<>>, mode |-> "",
     relevantResults |-> <<>>, hasCustomerSafeSources |-> FALSE,
     relevanceCheck |-> <<>>, rawAnswer |-> <<>>, result |-> NoResult]

\* variant: the empty-evidence return is missing
NoEvidence_Never(searchResults) == FALSE

\* searchResults.length === 0
NoEvidence(searchResults) == Len(searchResults) = 0

\* variant: the mode filter is skipped
FilterByMode_Unfiltered(searchResults, mode) == searchResults

\* mode === 'customer' ? searchResults.filter((r) => r.is_customer_safe) : searchResults
FilterByMode(searchResults, mode) ==
    IF mode = "customer" THEN SelectSeq(searchResults, IsSafe) ELSE searchResults

\* searchResults.some((r) => r.is_customer_safe)
SomeCustomerSafe(searchResults) ==
    \E i \in 1..Len(searchResults) : IsSafe(searchResults[i])

\* variant: the policy return is missing
PolicyBlocked_Never(mode, relevantResults) == FALSE

\* mode === 'customer' && relevantResults.length === 0
PolicyBlocked(mode, relevantResults) == mode = "customer" /\ Len(relevantResults) = 0

\* calls is the log of the requests made to the external services during the
\* running request, each with its outcome: pending, ok or failed
GenerateTextCall(purpose, sources) ==
    [fn |-> "generateText", purpose |-> purpose, sources |-> sources, st |-> "pending"]

SettleLast(cs, st) == [cs EXCEPT ![Len(cs)].st = st]

\* generateAnswerWithCitations from its call to its first await or early return
Enter(query, searchResults, mode) ==
    LET relevantResults == FilterByMode(searchResults, mode)
        hasCustomerSafeSources == SomeCustomerSafe(searchResults)
        frame == [pc |-> "relevance", query |-> query, searchResults |-> searchResults,
                  mode |-> mode, relevantResults |-> relevantResults,
                  hasCustomerSafeSources |-> hasCustomerSafeSources,
                  relevanceCheck |-> <<>>, rawAnswer |-> <<>>, result |-> NoResult]
    IN IF NoEvidence(searchResults)
       THEN [frame EXCEPT !.pc = "returned", !.relevantResults = <<>>,
                          !.hasCustomerSafeSources = FALSE,
                          !.result = [answer |-> EmptyEvidenceMsg, citations |-> <<>>,
                                      mode |-> mode, canCiteForCustomer |-> FALSE]]
       ELSE IF PolicyBlocked(mode, relevantResults)
       THEN [frame EXCEPT !.pc = "returned",
                          !.result = [answer |-> InternalOnlyMsg, citations |-> <<>>,
                                      mode |-> mode, canCiteForCustomer |-> FALSE]]
       ELSE frame

\* the generateText calls issued by Enter
EnterCalls(frame) ==
    IF frame.pc = "relevance"
    THEN <<GenerateTextCall("relevance", Slice0(frame.relevantResults, 10))>>
    ELSE <<>>

YES == <<"Y", "E", "S">>

\* variant: every reply counts as a positive judgment
IsRelevant_Always(relevanceCheck) == TRUE

\* variant: every reply without NO counts as a positive judgment
IsRelevant_NotNo(relevanceCheck) ==
    ~Includes(ToUpperCase(Trim(relevanceCheck)), <<"N", "O">>)

\* relevanceCheck.trim().toUpperCase().includes('YES')
IsRelevant(relevanceCheck) == Includes(ToUpperCase(Trim(relevanceCheck)), YES)

\* the relevance generateText call resolves with a reply; the frame keeps the
\* reply as the one-element sequence relevanceCheck
RelevanceReturns(relevanceCheck) ==
    /\ ans.pc = "relevance"
    /\ LET isRelevant == IsRelevant(relevanceCheck)
       IN IF ~isRelevant
          THEN /\ ans' = [ans EXCEPT !.pc = "returned",
                              !.relevanceCheck = <<relevanceCheck>>,
                              !.result = [answer |-> NotRelevantMsg, citations |-> <<>>,
                                          mode |-> ans.mode, canCiteForCustomer |-> FALSE]]
               /\ calls' = SettleLast(calls, "ok")
          ELSE /\ ans' = [ans EXCEPT !.pc = "generate",
                              !.relevanceCheck = <<relevanceCheck>>]
               /\ calls' = Append(SettleLast(calls, "ok"),
                                  GenerateTextCall("answer", ans.relevantResults))
    /\ UNCHANGED <<store, route, search>>

\* the relevance generateText call rejects
RelevanceFails ==
    /\ ans.pc = "relevance"
    /\ ans' = [ans EXCEPT !.pc = "threw"]
    /\ calls' = SettleLast(calls, "failed")
    /\ UNCHANGED <<store, route, search>>

\* the answer generateText call resolves with the raw answer
AnswerReturns(rawAnswer) ==
    /\ ans.pc = "generate"
    /\ LET cleanedAnswer == cleanInvalidCitations(rawAnswer, Len(ans.relevantResults))
           citations == BuildCitations(cleanedAnswer, ans.relevantResults)
       IN ans' = [ans EXCEPT !.pc = "returned", !.rawAnswer = rawAnswer,
                      !.result = [answer |-> Trim(cleanedAnswer), citations |-> citations,
                                  mode |-> ans.mode,
                                  canCiteForCustomer |->
                                      IF ans.mode = "customer"
                                      THEN ans.hasCustomerSafeSources ELSE TRUE]]
    /\ calls' = SettleLast(calls, "ok")
    /\ UNCHANGED <<store, route, search>>

\* variant: a rejected answer call falls back to an answer made of the sources
AnswerFails_Fallback ==
    /\ ans.pc = "generate"
    /\ ans' = [ans EXCEPT !.pc = "returned",
                    !.result = [answer |-> <<"[", "1", "]">>,
                                citations |-> BuildCitations(<<"[", "1", "]">>,
                                                             ans.relevantResults),
                                mode |-> ans.mode, canCiteForCustomer |-> TRUE]]
    /\ calls' = SettleLast(calls, "failed")
    /\ UNCHANGED <<store, route, search>>

\* the answer generateText call rejects
AnswerFails ==
    /\ ans.pc = "generate"
    /\ ans' = [ans EXCEPT !.pc = "threw"]
    /\ calls' = SettleLast(calls, "failed")
    /\ UNCHANGED <<store, route, search>>

----------------------------------------------------------------------------
(* Scores: a score is a fraction <<n, d>> with d > 0, kept in lowest terms *)

RECURSIVE GCD(_, _)
GCD(a, b) == IF b = 0 THEN a ELSE GCD(b, a % b)

Frac(n, d) == LET g == GCD(n, d) IN IF g = 0 THEN <<0, 1>> ELSE <<n \div g, d \div g>>
FracAdd(x, y) == Frac(x[1] * y[2] + y[1] * x[2], x[2] * y[2])
\* variant: the score is not divided
FracDiv_Undivided(x, y) == x
FracDiv(x, y) == Frac(x[1] * y[2], x[2] * y[1])
FracLess(x, y) == x[1] * y[2] < y[1] * x[2]
FracGeq(x, y) == ~FracLess(x, y)

----------------------------------------------------------------------------
(* knowledge_chunks and the two SELECT statements *)

\* a row of knowledge_chunks is [id, source_id, channel_id, is_customer_safe,
\* embedded]
ToSearchResult(row, similarity) ==
    [id |-> row.id, source_id |-> row.source_id, channel_id |-> row.channel_id,
     is_customer_safe |-> row.is_customer_safe, similarity |-> similarity]

\* insertChunk: id is SERIAL, a missing is_customer_safe is stored as false
insertChunk(chunk) ==
    Append(store, [id |-> Len(store) + 1, source_id |-> chunk.source_id,
                   channel_id |-> chunk.channel_id,
                   is_customer_safe |-> (chunk.is_customer_safe = TRUE),
                   embedded |-> chunk.embedding])

\* the orderings of a set of rows
Orderings(S) ==
    {s \in SeqsUpTo(S, Cardinality(S)) :
        Len(s) = Cardinality(S) /\ \A i, j \in 1..Len(s) : i # j => s[i] # s[j]}

\* the native scores a result list of n rows can carry, best first
NativeScores(values, n) ==
    {f \in [1..n -> values] : \A i \in 1..(n - 1) : FracGeq(f[i], f[i + 1])}

\* the result lists of a SELECT over the rows `eligible`, ordered by the
\* query-dependent native score and cut by LIMIT
SelectLists(eligible, limit, values) ==
    UNION {{[i \in 1..Len(Slice0(o, limit)) |-> ToSearchResult(o[i], f[i])] :
               f \in NativeScores(values, Len(Slice0(o, limit)))} :
           o \in Orderings(eligible)}

\* if (channelId) sql += ' AND channel_id = $n': an option that is undefined
\* is the empty string here
InChannel(row, channelId) == channelId # "" => row.channel_id = channelId

\* WHERE embedding IS NOT NULL [AND is_customer_safe = true] [AND channel_id = $n]
VectorEligible(customerSafeOnly, channelId) ==
    {r \in Range(store) :
        r.embedded /\ (customerSafeOnly => r.is_customer_safe) /\ InChannel(r, channelId)}

\* variant: the keyword query carries no filter
KeywordEligibles_Unfiltered(customerSafeOnly, channelId) == SUBSET Range(store)

\* WHERE content_tsv @@ plainto_tsquery(...) [AND is_customer_safe = true]
\* [AND channel_id = $n]: the rows whose text matches are any subset of the rows
KeywordEligibles(customerSafeOnly, channelId) ==
    SUBSET {r \in Range(store) :
               (customerSafeOnly => r.is_customer_safe) /\ InChannel(r, channelId)}

----------------------------------------------------------------------------
(* hybridSearch.ts: reciprocalRankFusion *)

RRF_K == 60

\* 1 / (k + index + 1) for the 0-based index
RrfScore(k, index) == Frac(1, k + index + 1)

IndexOfId(results, id) ==
    IF \E i \in 1..Len(results) : results[i].id = id
    THEN CHOOSE i \in 1..Len(results) : results[i].id = id
    ELSE 0

\* variant: the keyword score replaces the vector score instead of adding to it
ScoresMap_Overwrite(vectorResults, keywordResults, k) ==
    LET inVector(r) == IndexOfId(vectorResults, r.id) # 0
        keywordOnly(r) == ~inVector(r)
        fromVector ==
            [i \in 1..Len(vectorResults) |->
                LET j == IndexOfId(keywordResults, vectorResults[i].id)
                    score == IF j = 0 THEN RrfScore(k, i - 1) ELSE RrfScore(k, j - 1)
                IN [result |-> [vectorResults[i] EXCEPT !.similarity = score],
                    score |-> score]]
        onlyKeyword == SelectSeq(keywordResults, keywordOnly)
        fromKeyword ==
            [i \in 1..Len(onlyKeyword) |->
                LET score == RrfScore(k, IndexOfId(keywordResults, onlyKeyword[i].id) - 1)
                IN [result |-> [onlyKeyword[i] EXCEPT !.similarity = score],
                    score |-> score]]
    IN fromVector \o fromKeyword

\* Array.from(scoresMap.values()): the entries in insertion order, the vector
\* results first and then the keyword results not seen before
ScoresMap(vectorResults, keywordResults, k) ==
    LET inVector(r) == IndexOfId(vectorResults, r.id) # 0
        keywordOnly(r) == ~inVector(r)
        fromVector ==
            [i \in 1..Len(vectorResults) |->
                LET j == IndexOfId(keywordResults, vectorResults[i].id)
                    score == IF j = 0 THEN RrfScore(k, i - 1)
                             ELSE FracAdd(RrfScore(k, i - 1), RrfScore(k, j - 1))
                IN [result |-> [vectorResults[i] EXCEPT !.similarity = score],
                    score |-> score]]
        onlyKeyword == SelectSeq(keywordResults, keywordOnly)
        fromKeyword ==
            [i \in 1..Len(onlyKeyword) |->
                LET score == RrfScore(k, IndexOfId(keywordResults, onlyKeyword[i].id) - 1)
                IN [result |-> [onlyKeyword[i] EXCEPT !.similarity = score],
                    score |-> score]]
    IN fromVector \o fromKeyword

\* variant: a sort that puts the last of several equal scores first
RECURSIVE SortByScoreDesc_LastMax(_)
SortByScoreDesc_LastMax(items) ==
    IF items = <<>> THEN <<>>
    ELSE LET isMax(i) == \A j \in 1..Len(items) : ~FracLess(items[i].score, items[j].score)
             m == CHOOSE i \in 1..Len(items) :
                     isMax(i) /\ \A j \in (i + 1)..Len(items) : ~isMax(j)
         IN <<items[m]>> \o
            SortByScoreDesc_LastMax(SubSeq(items, 1, m - 1) \o SubSeq(items, m + 1, Len(items)))

\* Array.prototype.sort((a, b) => b.score - a.score), which is stable
RECURSIVE SortByScoreDesc(_)
SortByScoreDesc(items) ==
    IF items = <<>> THEN <<>>
    ELSE LET isMax(i) == \A j \in 1..Len(items) : ~FracLess(items[i].score, items[j].score)
             m == CHOOSE i \in 1..Len(items) :
                     isMax(i) /\ \A j \in 1..(i - 1) : ~isMax(j)
         IN <<items[m]>> \o
            SortByScoreDesc(SubSeq(items, 1, m - 1) \o SubSeq(items, m + 1, Len(items)))

\* variant: the scores are divided by 1
MaxScore_One(sorted) == <<1, 1>>

\* sorted[0]?.score || 1
MaxScore(sorted) ==
    IF sorted = <<>> \/ sorted[1].score[1] = 0 THEN <<1, 1>> ELSE sorted[1].score

reciprocalRankFusion(vectorResults, keywordResults, k) ==
    LET sorted == SortByScoreDesc(ScoresMap(vectorResults, keywordResults, k))
        maxScore == MaxScore(sorted)
    IN [i \in 1..Len(sorted) |->
           [sorted[i].result EXCEPT !.similarity = FracDiv(sorted[i].result.similarity, maxScore)]]

\* variant: the filtered list is returned whole
ThresholdAndLimit_Whole(rows, minSimilarity, limit) ==
    LET passes(r) == FracGeq(r.similarity, minSimilarity)
    IN SelectSeq(rows, passes)

\* merged.filter(similarity >= minSimilarity).slice(0, limit)
ThresholdAndLimit(rows, minSimilarity, limit) ==
    LET passes(r) == FracGeq(r.similarity, minSimilarity)
    IN Slice0(SelectSeq(rows, passes), limit)

----------------------------------------------------------------------------
(* hybridSearch and searchKnowledge as one request's search frame *)

NoQuery == [st |-> "none", rows |-> <<>>]
SearchOff == [pc |-> "off"]

EmbedCall == [fn |-> "embed", st |-> "pending"]
QueryCall(which) == [fn |-> "query", which |-> which, st |-> "pending"]

SettleQuery(cs, which, st) ==
    [i \in 1..Len(cs) |->
        IF cs[i].fn = "query" /\ cs[i].which = which THEN [cs[i] EXCEPT !.st = st]
        ELSE cs[i]]

\* searchFn(question, options) up to the await of generateEmbedding
StartSearch(fn, limit, customerSafeOnly, channelId, minSimilarity) ==
    [pc |-> "embed", fn |-> fn, limit |-> limit, customerSafeOnly |-> customerSafeOnly,
     channelId |-> channelId, minSimilarity |-> minSimilarity, vq |-> NoQuery, kq |-> NoQuery, out |-> <<>>]

\* generateEmbedding resolves: the store queries are issued
EmbedReturns ==
    /\ search.pc = "embed"
    /\ search' = [search EXCEPT !.pc = "query",
                      !.vq = [st |-> "pending", rows |-> <<>>],
                      !.kq = IF search.fn = "hybridSearch"
                             THEN [st |-> "pending", rows |-> <<>>] ELSE NoQuery]
    /\ calls' = SettleLast(calls, "ok") \o
                    (IF search.fn = "hybridSearch"
                     THEN <<QueryCall("vector"), QueryCall("keyword")>>
                     ELSE <<QueryCall("vector")>>)
    /\ UNCHANGED <<store, route, ans>>

\* generateEmbedding rejects: the search function rejects
EmbedFails ==
    /\ search.pc = "embed"
    /\ search' = [search EXCEPT !.pc = "threw"]
    /\ calls' = SettleLast(calls, "failed")
    /\ UNCHANGED <<store, route, ans>>

\* variant: the vector rows are fused as soon as they arrive, with the keyword
\* rows that are there by then
AfterQueries_Eager(frame) ==
    IF frame.fn = "hybridSearch"
    THEN IF frame.vq.st = "ok"
         THEN [frame EXCEPT !.pc = "returned",
                   !.out = ThresholdAndLimit(
                               reciprocalRankFusion(frame.vq.rows, frame.kq.rows, RRF_K),
                               frame.minSimilarity, frame.limit)]
         ELSE frame
    ELSE [frame EXCEPT !.pc = "returned",
              !.out = ThresholdAndLimit(frame.vq.rows, frame.minSimilarity, frame.limit)]

\* what follows the settled store queries: Promise.all has resolved and the
\* results are fused (hybridSearch) or thresholded (searchKnowledge)
AfterQueries(frame) ==
    IF frame.fn = "hybridSearch"
    THEN IF frame.vq.st = "ok" /\ frame.kq.st = "ok"
         THEN [frame EXCEPT !.pc = "returned",
                   !.out = ThresholdAndLimit(
                               reciprocalRankFusion(frame.vq.rows, frame.kq.rows, RRF_K),
                               frame.minSimilarity, frame.limit)]
         ELSE frame
    ELSE [frame EXCEPT !.pc = "returned",
              !.out = ThresholdAndLimit(frame.vq.rows, frame.minSimilarity, frame.limit)]

\* the native scores of the semantic channel; hybridSearch overwrites them
\* before reading them, so one value stands for all of them there
CosineValues == {<<9, 10>>, <<1, 10>>}
RankValues == {<<1, 2>>}

\* the result lists the vector SELECT of the running search can resolve with
VectorLists ==
    SelectLists(VectorEligible(search.customerSafeOnly, search.channelId), search.limit * 2,
                IF search.fn = "hybridSearch" THEN {<<9, 10>>} ELSE CosineValues)

\* the result lists the keyword SELECT of the running search can resolve with
KeywordLists ==
    UNION {SelectLists(matching, search.limit * 2, RankValues) :
           matching \in KeywordEligibles(search.customerSafeOnly, search.channelId)}

\* the vector SELECT resolves
VectorQueryReturns ==
    /\ search.pc = "query"
    /\ search.vq.st = "pending"
    /\ \E rows \in VectorLists :
           search' = AfterQueries([search EXCEPT !.vq = [st |-> "ok", rows |-> rows]])
    /\ calls' = SettleQuery(calls, "vector", "ok")
    /\ UNCHANGED <<store, route, ans>>

\* the keyword SELECT resolves
KeywordQueryReturns ==
    /\ search.pc = "query"
    /\ search.kq.st = "pending"
    /\ \E rows \in KeywordLists :
           search' = AfterQueries([search EXCEPT !.kq = [st |-> "ok", rows |-> rows]])
    /\ calls' = SettleQuery(calls, "keyword", "ok")
    /\ UNCHANGED <<store, route, ans>>

\* variant: a rejected store query counts as an empty result list and the
\* search goes on with the other channel
QueryFails_Degrade(which) ==
    /\ search.pc = "query"
    /\ \/ which = "vector" /\ search.vq.st = "pending"
          /\ search' = AfterQueries([search EXCEPT !.vq = [st |-> "ok", rows |-> <<>>]])
       \/ which = "keyword" /\ search.kq.st = "pending"
          /\ search' = AfterQueries([search EXCEPT !.kq = [st |-> "ok", rows |-> <<>>]])
    /\ calls' = SettleQuery(calls, which, "failed")
    /\ UNCHANGED <<store, route, ans>>

\* a store query rejects: Promise.all rejects, the catch block rethrows
QueryFails(which) ==
    /\ search.pc = "query"
    /\ \/ which = "vector" /\ search.vq.st = "pending"
          /\ search' = [search EXCEPT !.pc = "threw", !.vq = [st |-> "failed", rows |-> <<>>]]
       \/ which = "keyword" /\ search.kq.st = "pending"
          /\ search' = [search EXCEPT !.pc = "threw", !.kq = [st |-> "failed", rows |-> <<>>]]
    /\ calls' = SettleQuery(calls, which, "failed")
    /\ UNCHANGED <<store, route, ans>>

----------------------------------------------------------------------------
(* Direct calls of generateAnswerWithCitations, as citation-policy.test.ts *)
(* makes them                                                              *)

Queries == {"q1", "q2"}
Modes == {"internal", "customer"}

MockResult(id, isCustomerSafe) ==
    [id |-> id, source_id |-> id, channel_id |-> "C123",
     is_customer_safe |-> isCustomerSafe, similarity |-> <<9, 10>>]

EvidenceLists ==
    UNION {{[i \in 1..n |-> MockResult(i, f[i])] : f \in [1..n -> BOOLEAN]} :
           n \in 0..MaxEvidence}

Pieces ==
    {<<"[", "1", "]">>, <<"[", "2", "]">>, <<"[", "3", "]">>, <<"[", "0", "]">>,
     <<"[", "0", "1", "]">>, <<"[", "1", "2", "]">>, <<"[">>, <<"3", "]">>,
     <<" ">>, <<"a">>}

RawTexts == {Concat(ps) : ps \in SeqsUpTo(Pieces, MaxPieces)}

RelevanceReplies ==
    {<<"Y", "E", "S">>, <<"N", "O">>, <<" ", "y", "e", "s", "\n">>, <<>>}

RouteIdle == [pc |-> "idle"]

Init ==
    /\ store = <<>>
    /\ route = RouteIdle
    /\ search = SearchOff
    /\ ans = AnsOff
    /\ calls = <<>>

\* a test calls generateAnswerWithCitations(query, searchResults, mode)
Call(query, searchResults, mode) ==
    /\ route.pc = "idle"
    /\ ans.pc = "off"
    /\ ans' = Enter(query, searchResults, mode)
    /\ calls' = EnterCalls(ans')
    /\ UNCHANGED <<store, route, search>>

\* the test has taken the result or the rejection of its call
CallSettled ==
    /\ route.pc = "idle"
    /\ ans.pc \in {"returned", "threw"}
    /\ ans' = AnsOff
    /\ calls' = <<>>
    /\ UNCHANGED <<store, route, search>>

Next ==
    \/ \E q \in Queries, e \in EvidenceLists, m \in Modes : Call(q, e, m)
    \/ \E reply \in RelevanceReplies : RelevanceReturns(reply)
    \/ RelevanceFails
    \/ \E raw \in RawTexts : AnswerReturns(raw)
    \/ AnswerFails
    \/ CallSettled

Spec == Init /\ [][Next]_vars

----------------------------------------------------------------------------
(* knowledge-routes.ts: POST /ask, and the ingestion that fills the store *)

NoResponse == [status |-> 0]

AskBodies ==
    [question : {"", "q1"}, mode : {"internal", "customer", "admin"},
     limit : 1..MaxLimit, useHybrid : BOOLEAN, minSimilarity : {<<1, 5>>, <<1, 1>>}]

AskRawTexts ==
    {<<>>, <<"[", "1", "]">>, <<"[", "2", "]">>, <<"[", "2", "]", "[", "1", "]">>,
     <<"a", "[", "3", "]">>}

\* the chunks of one ingestion run, all of the channel SLACK_CHANNEL_ID
Chunks == [channel_id : {"C1"}, is_customer_safe : BOOLEAN, embedding : BOOLEAN]

\* ingestion stores one more chunk
InsertChunk(chunk) ==
    /\ route.pc = "idle"
    /\ ans.pc = "off"
    /\ Len(store) < MaxRows
    /\ store' = insertChunk([source_id |-> Len(store) + 1,
                             channel_id |-> chunk.channel_id,
                             is_customer_safe |-> chunk.is_customer_safe,
                             embedding |-> chunk.embedding])
    /\ UNCHANGED <<route, search, ans, calls>>

\* router.post('/ask') from the request to its first await or its 400 response
Ask(body) ==
    /\ route.pc = "idle"
    /\ ans.pc = "off"
    /\ IF body.question = ""
       THEN /\ route' = [pc |-> "done", question |-> body.question, mode |-> body.mode,
                         useHybrid |-> body.useHybrid,
                         res |-> [status |-> 400, error |-> "Question is required"]]
            /\ UNCHANGED <<search, calls>>
       ELSE IF body.mode \notin {"internal", "customer"}
       THEN /\ route' = [pc |-> "done", question |-> body.question, mode |-> body.mode,
                         useHybrid |-> body.useHybrid,
                         res |-> [status |-> 400,
                                  error |-> "Mode must be \"internal\" or \"customer\""]]
            /\ UNCHANGED <<search, calls>>
       ELSE /\ route' = [pc |-> "search", question |-> body.question, mode |-> body.mode,
                         useHybrid |-> body.useHybrid, res |-> NoResponse]
            /\ search' = StartSearch(IF body.useHybrid THEN "hybridSearch"
                                     ELSE "searchKnowledge",
                                     body.limit, body.mode = "customer", "",
                                     body.minSimilarity)
            /\ calls' = <<EmbedCall>>
    /\ UNCHANGED <<store, ans>>

\* the search has returned: the route calls generateAnswerWithCitations
AskSearched ==
    /\ route.pc = "search"
    /\ search.pc = "returned"
    /\ ans' = Enter(route.question, search.out, route.mode)
    /\ calls' = calls \o EnterCalls(ans')
    /\ route' = [route EXCEPT !.pc = "answer"]
    /\ UNCHANGED <<store, search>>

\* the body of res.json for an AnswerWithCitations
AskBody(answer) ==
    [question |-> route.question, answer |-> answer.answer, mode |-> answer.mode,
     searchMethod |-> IF route.useHybrid THEN "hybrid" ELSE "vector",
     canCiteForCustomer |-> answer.canCiteForCustomer,
     citations |-> [i \in 1..Len(answer.citations) |->
                       [index |-> i, source_id |-> answer.citations[i].source_id,
                        is_customer_safe |-> answer.citations[i].is_customer_safe]]]

\* generateAnswerWithCitations has returned: res.json
AskAnswered ==
    /\ route.pc = "answer"
    /\ ans.pc = "returned"
    /\ route' = [route EXCEPT !.pc = "done",
                     !.res = [status |-> 200, body |-> AskBody(ans.result)]]
    /\ UNCHANGED <<store, search, ans, calls>>

\* the catch block of the route: an awaited call has rejected
AskFailed ==
    /\ \/ route.pc = "search" /\ search.pc = "threw"
       \/ route.pc = "answer" /\ ans.pc = "threw"
    /\ route' = [route EXCEPT !.pc = "done",
                     !.res = [status |-> 500, error |-> "Failed to process question"]]
    /\ UNCHANGED <<store, search, ans, calls>>

\* the response is sent and the server waits for the next request
AskDone ==
    /\ route.pc = "done"
    /\ route' = RouteIdle
    /\ search' = SearchOff
    /\ ans' = AnsOff
    /\ calls' = <<>>
    /\ UNCHANGED store

NextAsk ==
    \/ \E chunk \in Chunks : InsertChunk(chunk)
    \/ \E body \in AskBodies : Ask(body)
    \/ EmbedReturns
    \/ EmbedFails
    \/ VectorQueryReturns
    \/ KeywordQueryReturns
    \/ \E which \in {"vector", "keyword"} : QueryFails(which)
    \/ AskSearched
    \/ \E reply \in RelevanceReplies : RelevanceReturns(reply)
    \/ RelevanceFails
    \/ \E raw \in AskRawTexts : AnswerReturns(raw)
    \/ AnswerFails
    \/ AskAnswered
    \/ AskFailed
    \/ AskDone

SpecAsk == Init /\ [][NextAsk]_vars

----------------------------------------------------------------------------
(* knowledge-routes.ts: POST /search over the chunks of two channels *)

SearchBodies ==
    [query : {"", "q1"}, limit : 1..MaxLimit, customerSafeOnly : BOOLEAN,
     channelId : {"", "C1"}, useHybrid : BOOLEAN, minSimilarity : {<<1, 5>>}]

\* the chunks of ingestion runs over the channels C1 and C2
SearchChunks == [channel_id : {"C1", "C2"}, is_customer_safe : BOOLEAN, embedding : {TRUE}]

\* router.post('/search') from the request to its await or its 400 response;
\* channelId is not among the destructured fields and is not passed on
Search(body) ==
    /\ route.pc = "idle"
    /\ IF body.query = ""
       THEN /\ route' = [pc |-> "done", body |-> body,
                         res |-> [status |-> 400, error |-> "Query is required"]]
            /\ UNCHANGED <<search, calls>>
       ELSE /\ route' = [pc |-> "searching", body |-> body, res |-> NoResponse]
            /\ search' = StartSearch(IF body.useHybrid THEN "hybridSearch"
                                     ELSE "searchKnowledge",
                                     body.limit, body.customerSafeOnly, "",
                                     body.minSimilarity)
            /\ calls' = <<EmbedCall>>
    /\ UNCHANGED <<store, ans>>

\* the body of res.json of the search route
SearchBody(results) ==
    [query |-> route.body.query,
     searchMethod |-> IF route.body.useHybrid THEN "hybrid" ELSE "vector",
     resultsCount |-> Len(results), minSimilarity |-> route.body.minSimilarity,
     results |-> [i \in 1..Len(results) |->
                     [id |-> results[i].id, source_id |-> results[i].source_id,
                      similarity |-> results[i].similarity,
                      is_customer_safe |-> results[i].is_customer_safe]]]

\* the search has returned: res.json
SearchAnswered ==
    /\ route.pc = "searching"
    /\ search.pc = "returned"
    /\ route' = [route EXCEPT !.pc = "done",
                     !.res = [status |-> 200, body |-> SearchBody(search.out)]]
    /\ UNCHANGED <<store, search, ans, calls>>

\* the catch block of the route: the search has rejected
SearchFailed ==
    /\ route.pc = "searching"
    /\ search.pc = "threw"
    /\ route' = [route EXCEPT !.pc = "done",
                     !.res = [status |-> 500, error |-> "Failed to search"]]
    /\ UNCHANGED <<store, search, ans, calls>>

NextSearch ==
    \/ \E chunk \in SearchChunks : InsertChunk(chunk)
    \/ \E body \in SearchBodies : Search(body)
    \/ EmbedReturns
    \/ EmbedFails
    \/ VectorQueryReturns
    \/ KeywordQueryReturns
    \/ \E which \in {"vector", "keyword"} : QueryFails(which)
    \/ SearchAnswered
    \/ SearchFailed
    \/ AskDone

SpecSearch == Init /\ [][NextSearch]_vars

----------------------------------------------------------------------------
(* Direct calls of hybridSearch over a filled knowledge_chunks table *)

\* the four kinds of rows: channel C1 or C2, customer-safe or internal-only
RowOfKind(id, kind) ==
    [id |-> id, source_id |-> id, channel_id |-> IF kind <= 2 THEN "C1" ELSE "C2",
     is_customer_safe |-> (kind % 2 = 1), embedded |-> TRUE]

\* the tables of at most MaxHybridRows rows; the kinds do not decrease along
\* the ids, since the ids carry no meaning to a search
HybridStores ==
    UNION {{[i \in 1..n |-> RowOfKind(i, f[i])] :
               f \in {g \in [1..n -> 1..4] : \A i \in 1..(n - 1) : g[i] <= g[i + 1]}} :
           n \in 0..MaxHybridRows}

HybridOptions ==
    [limit : 1..MaxLimit, customerSafeOnly : BOOLEAN, channelId : {"", "C1"},
     minSimilarity : {<<1, 5>>, <<1, 1>>}]

InitHybrid ==
    /\ store \in HybridStores
    /\ route = RouteIdle
    /\ search = SearchOff
    /\ ans = AnsOff
    /\ calls = <<>>

\* hybridSearch(query, options) up to the await of generateEmbedding
HybridCall(options) ==
    /\ search.pc = "off"
    /\ search' = StartSearch("hybridSearch", options.limit, options.customerSafeOnly,
                             options.channelId, options.minSimilarity)
    /\ calls' = <<EmbedCall>>
    /\ UNCHANGED <<store, route, ans>>

\* the caller has the list or the rejection; the next call can be made
HybridSettled ==
    /\ search.pc \in {"returned", "threw"}
    /\ search' = SearchOff
    /\ calls' = <<>>
    /\ UNCHANGED <<store, route, ans>>

NextHybrid ==
    \/ \E options \in HybridOptions : HybridCall(options)
    \/ EmbedReturns
    \/ EmbedFails
    \/ VectorQueryReturns
    \/ KeywordQueryReturns
    \/ \E which \in {"vector", "keyword"} : QueryFails(which)
    \/ HybridSettled

SpecHybrid == InitHybrid /\ [][NextHybrid]_vars

----------------------------------------------------------------------------
(* chunker.ts: chunkMessages applied to a channel history *)

\* a SlackMessage is [text, ts, thread_ts]; a thread_ts that is undefined is ""

\* variant: the array of a thread holds its last message only
Push_Replace(list, msg) == <<msg>>

\* threadsMap.get(msg.thread_ts)!.push(msg)
Push(list, msg) == Append(list, msg)

\* the Map threadsMap after the first loop, as its entries in insertion order
RECURSIVE ThreadsMap(_, _)
ThreadsMap(messages, map) ==
    IF messages = <<>> THEN map
    ELSE LET msg == Head(messages)
             has == \E e \in 1..Len(map) : map[e].threadTs = msg.thread_ts
         IN IF msg.thread_ts # ""
            THEN IF has
                 THEN ThreadsMap(Tail(messages),
                          [e \in 1..Len(map) |->
                              IF map[e].threadTs = msg.thread_ts
                              THEN [map[e] EXCEPT !.messages = Push(@, msg)]
                              ELSE map[e]])
                 ELSE ThreadsMap(Tail(messages),
                          Append(map, [threadTs |-> msg.thread_ts,
                                       messages |-> Push(<<>>, msg)]))
            ELSE ThreadsMap(Tail(messages), map)

\* the array standaloneMessages after the first loop
StandaloneMessages(messages) ==
    LET alone(msg) == msg.thread_ts = ""
    IN SelectSeq(messages, alone)

\* threadMessages.map((m) => m.text).join('\n---\n'): a text is the sequence
\* of its parts
RECURSIVE JoinTexts(_)
JoinTexts(messages) ==
    IF messages = <<>> THEN <<>>
    ELSE IF Len(messages) = 1 THEN <<messages[1].text>>
    ELSE <<messages[1].text, "\n---\n">> \o JoinTexts(Tail(messages))

chunkMessages(messages) ==
    LET threadsMap == ThreadsMap(messages, <<>>)
        standaloneMessages == StandaloneMessages(messages)
    IN [e \in 1..Len(threadsMap) |->
           [content |-> JoinTexts(threadsMap[e].messages),
            messages |-> threadsMap[e].messages,
            isThread |-> TRUE, threadTs |-> threadsMap[e].threadTs]]
       \o [i \in 1..Len(standaloneMessages) |->
              [content |-> <<standaloneMessages[i].text>>,
               messages |-> <<standaloneMessages[i]>>, isThread |-> FALSE]]

\* the histories of at most MaxMessages messages; a ts is unique in a channel
Histories ==
    UNION {{[i \in 1..n |-> [text |-> t[i], ts |-> i, thread_ts |-> th[i]]] :
               t \in [1..n -> {"a", "b"}], th \in [1..n -> {"", "T1", "T2"}]} :
           n \in 0..MaxMessages}

InitChunk ==
    /\ store = <<>>
    /\ search = SearchOff
    /\ ans = AnsOff
    /\ calls = <<>>
    /\ \E messages \in Histories :
           route = [pc |-> "fetched", fn |-> "chunkMessages", messages |-> messages,
                    chunks |-> <<>>]

\* const chunks = chunkMessages(messages)
Chunk ==
    /\ route.pc = "fetched"
    /\ route' = [route EXCEPT !.pc = "chunked", !.chunks = chunkMessages(route.messages)]
    /\ UNCHANGED <<store, search, ans, calls>>

NextChunk == Chunk

SpecChunk == InitChunk /\ [][NextChunk]_vars

----------------------------------------------------------------------------
(* classifier.ts: classifyMessage *)

MessageTooShort ==
    <<"M", "e", "s", "s", "a", "g", "e", " ", "t", "o", "o", " ", "s", "h",
      "o", "r", "t">>

SystemMessage ==
    <<"S", "y", "s", "t", "e", "m", " ", "m", "e", "s", "s", "a", "g", "e">>

AiClassification ==
    <<"A", "I", " ", "c", "l", "a", "s", "s", "i", "f", "i", "c", "a", "t",
      "i", "o", "n">>

FallbackClassification ==
    <<"F", "a", "l", "l", "b", "a", "c", "k", " ", "c", "l", "a", "s", "s",
      "i", "f", "i", "c", "a", "t", "i", "o", "n", " ", "(", "A", "I", " ",
      "e", "r", "r", "o", "r", ")">>

\* the sources of the four systemPatterns
SystemPatterns ==
    {
    <<"h", "a", "s", " ", "j", "o", "i", "n", "e", "d", " ", "t", "h", "e",
      " ", "c", "h", "a", "n", "n", "e", "l">>,
    <<"h", "a", "s", " ", "l", "e", "f", "t", " ", "t", "h", "e", " ", "c",
      "h", "a", "n", "n", "e", "l">>,
    <<"s", "e", "t", " ", "t", "h", "e", " ", "c", "h", "a", "n", "n", "e",
      "l">>,
    <<"u", "p", "l", "o", "a", "d", "e", "d", " ", "a", " ", "f", "i", "l",
      "e">>}

\* RegExp.prototype.test of a pattern with the i flag and no special character
TestIgnoreCase(pattern, content) == Includes(ToUpperCase(content), ToUpperCase(pattern))

\* variant: the length is taken before trimming
TooShort_Untrimmed(content) == content = <<>> \/ Len(content) < 10

\* !content || content.trim().length < 10
TooShort(content) == content = <<>> \/ Len(Trim(content)) < 10

IsSystemMessage(content) == \E p \in SystemPatterns : TestIgnoreCase(p, content)

\* String.prototype.split('\n')
RECURSIVE SplitLines(_)
SplitLines(text) ==
    IF \E i \in 1..Len(text) : text[i] = "\n"
    THEN LET i == CHOOSE j \in 1..Len(text) :
                      text[j] = "\n" /\ \A h \in 1..(j - 1) : text[h] # "\n"
         IN <<SubSeq(text, 1, i - 1)>> \o SplitLines(SubSeq(text, i + 1, Len(text)))
    ELSE <<text>>

\* String.prototype.startsWith
StartsWith(line, prefix) ==
    Len(line) >= Len(prefix) /\ SubSeq(line, 1, Len(prefix)) = prefix

\* lines.find((l) => l.startsWith(prefix)): the lines found, none or one
FindLine(lines, prefix) ==
    LET starts(l) == StartsWith(l, prefix)
        found == SelectSeq(lines, starts)
    IN IF found = <<>> THEN <<>> ELSE <<found[1]>>

ShouldIndexKey ==
    <<"S", "H", "O", "U", "L", "D", "_", "I", "N", "D", "E", "X", ":">>
SourceOfTruthKey ==
    <<"S", "O", "U", "R", "C", "E", "_", "O", "F", "_", "T", "R", "U", "T",
      "H", ":">>
ReasonKey ==
    <<"R", "E", "A", "S", "O", "N", ":">>

\* line?.includes('YES') || false
SaysYes(found) == found # <<>> /\ Includes(found[1], YES)

\* reasonLine?.replace('REASON:', '').trim() || 'AI classification'
ReasonOf(found) ==
    LET reason == IF found = <<>> THEN <<>>
                  ELSE Trim(SubSeq(found[1], Len(ReasonKey) + 1, Len(found[1])))
    IN IF reason = <<>> THEN AiClassification ELSE reason

\* the result parsed from the text of the model
ParseClassification(text) ==
    LET lines == SplitLines(text)
    IN [shouldIndex |-> SaysYes(FindLine(lines, ShouldIndexKey)),
        reason |-> ReasonOf(FindLine(lines, ReasonKey)),
        isSourceOfTruth |-> SaysYes(FindLine(lines, SourceOfTruthKey))]

ClassifyCall == [fn |-> "generateText", purpose |-> "classify", st |-> "pending"]

\* classifyMessage(content) up to its await or its early return
Classify(content) ==
    /\ route.pc = "idle"
    /\ IF TooShort(content)
       THEN /\ route' = [pc |-> "classified", fn |-> "classifyMessage", content |-> content,
                         result |-> [shouldIndex |-> FALSE, reason |-> MessageTooShort,
                                     isSourceOfTruth |-> FALSE]]
            /\ UNCHANGED calls
       ELSE IF IsSystemMessage(content)
       THEN /\ route' = [pc |-> "classified", fn |-> "classifyMessage", content |-> content,
                         result |-> [shouldIndex |-> FALSE, reason |-> SystemMessage,
                                     isSourceOfTruth |-> FALSE]]
            /\ UNCHANGED calls
       ELSE /\ route' = [pc |-> "classifying", fn |-> "classifyMessage", content |-> content]
            /\ calls' = <<ClassifyCall>>
    /\ UNCHANGED <<store, search, ans>>

\* generateText resolves with a text
ClassifyReturns(text) ==
    /\ route.pc = "classifying"
    /\ route' = [pc |-> "classified", fn |-> "classifyMessage", content |-> route.content,
                 result |-> ParseClassification(text)]
    /\ calls' = SettleLast(calls, "ok")
    /\ UNCHANGED <<store, search, ans>>

\* generateText rejects: the fallback of the catch block
ClassifyFails ==
    /\ route.pc = "classifying"
    /\ route' = [pc |-> "classified", fn |-> "classifyMessage", content |-> route.content,
                 result |-> [shouldIndex |-> Len(route.content) >= 20,
                             reason |-> FallbackClassification,
                             isSourceOfTruth |-> FALSE]]
    /\ calls' = SettleLast(calls, "failed")
    /\ UNCHANGED <<store, search, ans>>

\* the caller has the result
ClassifySettled ==
    /\ route.pc = "classified"
    /\ route' = RouteIdle
    /\ calls' = <<>>
    /\ UNCHANGED <<store, search, ans>>

ContentPieces ==
    {
    <<"h", "a", "s", " ", "j", "o", "i", "n", "e", "d", " ", "t", "h", "e",
      " ", "c", "h", "a", "n", "n", "e", "l">>,
    <<"H", "a", "s", " ", "L", "e", "f", "t", " ", "T", "h", "e", " ", "C",
      "h", "a", "n", "n", "e", "l">>,
    <<"s", "e", "t", " ", "t", "h", "e", " ", "c", "h", "a", "n", "n", "e",
      "l">>,
    <<" ", " ", " ">>,
    <<"o", "k">>,
    <<"d", "e", "p", "l", "o", "y", " ", "i", "t">>,
    <<"d", "e", "p", "l", "o", "y", " ", "n", "o", "w">>,
    <<"H", "o", "w", " ", "d", "o", " ", "w", "e", " ", "d", "e", "p", "l",
      "o", "y", " ", "t", "o", " ", "p", "r", "o", "d", "u", "c", "t", "i",
      "o", "n", "?">>}

Contents == {Concat(ps) : ps \in SeqsUpTo(ContentPieces, MaxPieces)}

ClassifierReplies ==
    {
    <<"S", "H", "O", "U", "L", "D", "_", "I", "N", "D", "E", "X", ":", " ",
      "Y", "E", "S", "\n", "S", "O", "U", "R", "C", "E", "_", "O", "F",
      "_", "T", "R", "U", "T", "H", ":", " ", "Y", "E", "S", "\n", "R",
      "E", "A", "S", "O", "N", ":", " ", "d", "e", "c", "i", "s", "i", "o",
      "n">>,
    <<"S", "H", "O", "U", "L", "D", "_", "I", "N", "D", "E", "X", ":", " ",
      "N", "O", "\n", "S", "O", "U", "R", "C", "E", "_", "O", "F", "_",
      "T", "R", "U", "T", "H", ":", " ", "N", "O", "\n", "R", "E", "A",
      "S", "O", "N", ":", " ", "c", "h", "a", "t">>,
    <<"S", "H", "O", "U", "L", "D", "_", "I", "N", "D", "E", "X", ":", " ",
      "Y", "E", "S">>,
    <<>>}

NextClassify ==
    \/ \E content \in Contents : Classify(content)
    \/ \E text \in ClassifierReplies : ClassifyReturns(text)
    \/ ClassifyFails
    \/ ClassifySettled

SpecClassify == Init /\ [][NextClassify]_vars

----------------------------------------------------------------------------
(* customerSafeDetector.ts and the loop of scripts/ingest.ts *)

CUSTOMER_SAFE ==
    <<"C", "U", "S", "T", "O", "M", "E", "R", "_", "S", "A", "F", "E">>

\* variant: a reply that holds the word CUSTOMER_SAFE counts as the verdict
IsCustomerSafeVerdict_Includes(text) == Includes(ToUpperCase(Trim(text)), CUSTOMER_SAFE)

\* text.trim().toUpperCase() === 'CUSTOMER_SAFE'
IsCustomerSafeVerdict(text) == ToUpperCase(Trim(text)) = CUSTOMER_SAFE

SafetyReplies ==
    {
    <<"C", "U", "S", "T", "O", "M", "E", "R", "_", "S", "A", "F", "E">>,
    <<" ", "c", "u", "s", "t", "o", "m", "e", "r", "_", "s", "a", "f", "e",
      "\n">>,
    <<"I", "N", "T", "E", "R", "N", "A", "L", "_", "O", "N", "L", "Y">>,
    <<"N", "O", "T", " ", "C", "U", "S", "T", "O", "M", "E", "R", "_", "S",
      "A", "F", "E">>,
    <<>>}

\* the contents of the chunks of a run
IngestContents == ContentPieces \cup {<<>>}

\* the results classifyMessage(content) can resolve with
ClassifyOutcomes(content) ==
    IF TooShort(content)
    THEN {[shouldIndex |-> FALSE, reason |-> MessageTooShort, isSourceOfTruth |-> FALSE]}
    ELSE IF IsSystemMessage(content)
    THEN {[shouldIndex |-> FALSE, reason |-> SystemMessage, isSourceOfTruth |-> FALSE]}
    ELSE {ParseClassification(text) : text \in ClassifierReplies}
         \cup {[shouldIndex |-> Len(content) >= 20, reason |-> FallbackClassification,
                isSourceOfTruth |-> FALSE]}

SafetyCall(content) ==
    [fn |-> "generateText", purpose |-> "safety", content |-> content, reply |-> <<>>,
     st |-> "pending"]

\* the loop of ingestSlackData between two chunks
IngestLoop(userCache) ==
    [pc |-> "loop", fn |-> "ingestSlackData", userCache |-> userCache, content |-> <<>>,
     user |-> "", customerSafe |-> FALSE]

InitIngest ==
    /\ store = <<>>
    /\ route = IngestLoop({})
    /\ search = SearchOff
    /\ ans = AnsOff
    /\ calls = <<>>

\* the next chunk: an empty content is skipped, any other is classified
IngestChunk(content, user) ==
    /\ route.pc = "loop"
    /\ Len(store) < MaxRows
    /\ route' = [route EXCEPT !.pc = IF Len(Trim(content)) = 0 THEN "skipped" ELSE "classify",
                              !.content = content, !.user = user]
    /\ UNCHANGED <<store, search, ans, calls>>

\* classifyMessage has resolved: the chunk is skipped or isCustomerSafe is called
IngestClassified ==
    /\ route.pc = "classify"
    /\ \E classification \in ClassifyOutcomes(route.content) :
           IF ~classification.shouldIndex
           THEN route' = [route EXCEPT !.pc = "skipped"] /\ UNCHANGED calls
           ELSE /\ route' = [route EXCEPT !.pc = "safety"]
                /\ calls' = <<SafetyCall(route.content)>>
    /\ UNCHANGED <<store, search, ans>>

\* generateText of isCustomerSafe resolves; generateEmbedding is called
SafetyReturns(text) ==
    /\ route.pc = "safety"
    /\ route' = [route EXCEPT !.pc = "embed", !.customerSafe = IsCustomerSafeVerdict(text)]
    /\ calls' = Append([calls EXCEPT ![Len(calls)].st = "ok", ![Len(calls)].reply = <<text>>],
                       EmbedCall)
    /\ UNCHANGED <<store, search, ans>>

\* generateText of isCustomerSafe rejects: the catch block returns false
SafetyFails ==
    /\ route.pc = "safety"
    /\ route' = [route EXCEPT !.pc = "embed", !.customerSafe = FALSE]
    /\ calls' = Append(SettleLast(calls, "failed"), EmbedCall)
    /\ UNCHANGED <<store, search, ans>>

\* generateEmbedding resolves: the author is looked up unless it is cached
IngestEmbedded ==
    /\ route.pc = "embed"
    /\ route' = [route EXCEPT !.pc = IF route.user \in route.userCache THEN "insert"
                                     ELSE "user"]
    /\ calls' = SettleLast(calls, "ok")
    /\ UNCHANGED <<store, search, ans>>

\* generateEmbedding rejects: the catch block of the loop logs the error
IngestEmbedFails ==
    /\ route.pc = "embed"
    /\ route' = [route EXCEPT !.pc = "skipped"]
    /\ calls' = SettleLast(calls, "failed")
    /\ UNCHANGED <<store, search, ans>>

\* fetchUserInfo resolves, with the user or with null
IngestUserFetched ==
    /\ route.pc = "user"
    /\ route' = [route EXCEPT !.pc = "insert", !.userCache = @ \cup {route.user}]
    /\ UNCHANGED <<store, search, ans, calls>>

\* insertChunk(knowledgeChunk) resolves
IngestInserted ==
    /\ route.pc = "insert"
    /\ store' = insertChunk([source_id |-> Len(store) + 1, channel_id |-> "C1",
                             is_customer_safe |-> route.customerSafe,
                             embedding |-> TRUE])
    /\ route' = [route EXCEPT !.pc = "stored"]
    /\ UNCHANGED <<search, ans, calls>>

\* insertChunk rejects: the catch block of the loop logs the error
IngestInsertFails ==
    /\ route.pc = "insert"
    /\ route' = [route EXCEPT !.pc = "skipped"]
    /\ UNCHANGED <<store, search, ans, calls>>

\* the loop goes on to the next chunk
IngestContinue ==
    /\ route.pc \in {"stored", "skipped"}
    /\ route' = IngestLoop(route.userCache)
    /\ calls' = <<>>
    /\ UNCHANGED <<store, search, ans>>

NextIngest ==
    \/ \E content \in IngestContents, user \in {"U1", "U2"} : IngestChunk(content, user)
    \/ IngestClassified
    \/ \E text \in SafetyReplies : SafetyReturns(text)
    \/ SafetyFails
    \/ IngestEmbedded
    \/ IngestEmbedFails
    \/ IngestUserFetched
    \/ IngestInserted
    \/ IngestInsertFails
    \/ IngestContinue

SpecIngest == InitIngest /\ [][NextIngest]_vars

----------------------------------------------------------------------------
(* cleanInvalidCitations applied to a text and a number of sources *)

CleanFrame(text, maxValidCitation) ==
    [pc |-> "raw", fn |-> "cleanInvalidCitations", text |-> text,
     maxValidCitation |-> maxValidCitation, cleaned |-> <<>>]

\* the raw texts, and the pieces of a raw text between an opening bracket and
\* the end of a token
CleanTexts == RawTexts \cup {<<"[">> \o piece \o <<"3", "]">> : piece \in Pieces}

InitClean ==
    /\ store = <<>>
    /\ route = RouteIdle
    /\ search = SearchOff
    /\ calls = <<>>
    /\ \E text \in CleanTexts, maxValidCitation \in 0..MaxEvidence :
           ans = CleanFrame(text, maxValidCitation)

\* cleanInvalidCitations(text, maxValidCitation)
Clean ==
    /\ ans.pc = "raw"
    /\ ans' = [ans EXCEPT !.pc = "cleaned",
                    !.cleaned = cleanInvalidCitations(ans.text, ans.maxValidCitation)]
    /\ UNCHANGED <<store, route, search, calls>>

NextClean == Clean

SpecClean == InitClean /\ [][NextClean]_vars

----------------------------------------------------------------------------
(* reciprocalRankFusion applied to two ranked lists of fragments *)

Fragment(id) ==
    [id |-> id, source_id |-> id, channel_id |-> "C1", is_customer_safe |-> TRUE,
     embedded |-> TRUE]

\* the rankings of the subsets of the fragments
FragmentRankings == UNION {Orderings(S) : S \in SUBSET (1..MaxFusionIds)}

\* a semantic list: cosine similarities 0.9, 0.8, ... from the best row on
VectorRanked(o) == [i \in 1..Len(o) |-> ToSearchResult(Fragment(o[i]), Frac(10 - i, 10))]

\* a lexical list: ts_rank 0.5, 0.4, ... from the best row on
KeywordRanked(o) == [i \in 1..Len(o) |-> ToSearchResult(Fragment(o[i]), Frac(6 - i, 10))]

FusionFrame(vectorResults, keywordResults) ==
    [pc |-> "ranked", fn |-> "reciprocalRankFusion",
     vectorResults |-> vectorResults, keywordResults |-> keywordResults,
     scoresMap |-> <<>>, maxScore |-> <<1, 1>>, out |-> <<>>]

InitFusion ==
    /\ store = <<>>
    /\ route = RouteIdle
    /\ ans = AnsOff
    /\ calls = <<>>
    /\ \E v \in FragmentRankings, k \in FragmentRankings :
           search = FusionFrame(VectorRanked(v), KeywordRanked(k))

\* reciprocalRankFusion(vectorResults, keywordResults) with the default k; the
\* frame keeps the locals scoresMap (in insertion order) and maxScore
Fuse ==
    /\ search.pc = "ranked"
    /\ LET scoresMap == ScoresMap(search.vectorResults, search.keywordResults, RRF_K)
       IN search' = [search EXCEPT
              !.pc = "fused",
              !.scoresMap = scoresMap,
              !.maxScore = MaxScore(SortByScoreDesc(scoresMap)),
              !.out = reciprocalRankFusion(search.vectorResults, search.keywordResults,
                                           RRF_K)]
    /\ UNCHANGED <<store, route, ans, calls>>

NextFusion == Fuse

SpecFusion == InitFusion /\ [][NextFusion]_vars

----------------------------------------------------------------------------
(* Properties *)

Returned == ans.pc = "returned"
Citations == ans.result.citations

\* the generateText calls of the running request
GenerateTextCalls == {i \in 1..Len(calls) : calls[i].fn = "generateText"}
Failed(fn) == \E i \in 1..Len(calls) : calls[i].fn = fn /\ calls[i].st = "failed"

\* C1: in customer mode every citation of a returned result is customer-safe,
\* whatever the mix of sources and whatever the generator wrote.
C1_VisibilityInvariant ==
    (Returned /\ ans.mode = "customer")
        => \A i \in 1..Len(Citations) : Citations[i].is_customer_safe = TRUE

\* a customer-mode result with citations, from safe and internal-only sources
C1_Witness ==
    /\ Returned /\ ans.mode = "customer"
    /\ \E i, j \in 1..Len(ans.searchResults) :
           ans.searchResults[i].is_customer_safe /\ ~ans.searchResults[j].is_customer_safe
    /\ Len(Citations) > 0

\* C2: every citation token [n] of a returned answer text has 1 <= n <= N, N
\* being the number of sources handed to the generation call.
C2_TokensInRange ==
    Returned => \A n \in CitationTokens(ans.result.answer) :
                    1 <= n /\ n <= Len(ans.relevantResults)

\* C3: the citations are distinct sources handed to the generator whose
\* 1-based numbers occur as citation tokens in the returned answer text; with
\* one source and a raw text holding [1] and [2] there is exactly one citation.
C3_CitationsFromText ==
    Returned =>
        /\ \E f \in [1..Len(Citations) -> 1..Len(ans.relevantResults)] :
              /\ \A i, j \in 1..Len(Citations) : i # j => f[i] # f[j]
              /\ \A j \in 1..Len(Citations) :
                    /\ Citations[j] = ToCitation(ans.relevantResults[f[j]])
                    /\ f[j] \in CitationTokens(ans.result.answer)
        /\ (Len(ans.relevantResults) = 1 /\ {1, 2} \subseteq CitationTokens(ans.rawAnswer))
              => Len(Citations) = 1

\* one source, raw text [1][2], one citation
C3_Witness ==
    /\ Returned
    /\ Len(ans.relevantResults) = 1
    /\ ans.rawAnswer = <<"[", "1", "]", "[", "2", "]">>
    /\ ans.result.answer = <<"[", "1", "]">>
    /\ Len(Citations) = 1

\* C4: customer mode with a non-empty source list without a customer-safe
\* entry returns the internal-only message, no citation and
\* canCiteForCustomer = false, and no generateText call is made.
C4_PolicyBlocked ==
    (/\ ans.pc \notin {"off"}
     /\ ans.mode = "customer"
     /\ Len(ans.searchResults) > 0
     /\ \A i \in 1..Len(ans.searchResults) : ~ans.searchResults[i].is_customer_safe)
        => /\ Returned
           /\ ans.result.answer = InternalOnlyMsg
           /\ Citations = <<>>
           /\ ans.result.canCiteForCustomer = FALSE
           /\ GenerateTextCalls = {}

\* two internal-only sources in customer mode, for the second query
C4_Witness ==
    /\ Returned /\ ans.mode = "customer" /\ ans.query = "q2"
    /\ Len(ans.searchResults) = 2
    /\ \A i \in 1..2 : ~ans.searchResults[i].is_customer_safe
    /\ ans.result.answer = InternalOnlyMsg

\* C5: an empty source list returns the insufficient-information message and
\* no citation, in either mode and for any query, and no generateText call
\* is made.
C5_EmptyEvidence ==
    (ans.pc \notin {"off"} /\ ans.searchResults = <<>>)
        => /\ Returned
           /\ ans.result.answer = EmptyEvidenceMsg
           /\ Citations = <<>>
           /\ GenerateTextCalls = {}

\* the empty list in internal mode
C5_Witness ==
    /\ Returned /\ ans.searchResults = <<>> /\ ans.mode = "internal"
    /\ ans.result.answer = EmptyEvidenceMsg

\* C6: in customer mode canCiteForCustomer of a returned result is true
\* exactly when the source list passed in holds a customer-safe entry.
C6_CanCiteIffSafeSource ==
    (Returned /\ ans.mode = "customer")
        => (ans.result.canCiteForCustomer = TRUE
               <=> \E i \in 1..Len(ans.searchResults) :
                       ans.searchResults[i].is_customer_safe)

\* C7: in internal mode canCiteForCustomer is true on every return path and
\* the sources handed to the generator are the whole input list.
C7_InternalCanCite ==
    /\ (Returned /\ ans.mode = "internal") => ans.result.canCiteForCustomer = TRUE
    /\ ans.mode = "internal" =>
           \A i \in GenerateTextCalls :
               calls[i].purpose = "answer" => calls[i].sources = ans.searchResults

\* C8: a customer-mode POST /ask over a store whose matching rows are all
\* internal-only answers with the internal-only message, never with an
\* insufficient-information message.
C8_PolicyPrecedence ==
    (/\ route.pc = "done" /\ route.res.status = 200
     /\ route.mode = "customer" /\ route.useHybrid
     /\ \E i \in 1..Len(store) : store[i].embedded
     /\ \A i \in 1..Len(store) : ~store[i].is_customer_safe)
        => /\ route.res.body.answer = InternalOnlyMsg
           /\ route.res.body.answer \notin {EmptyEvidenceMsg, NotRelevantMsg}

\* C9: hybridSearch fails closed: after a failed embedding no store query is
\* issued, after a failed store query or embedding the search has thrown with
\* no result list, and a returned search has both result lists.
C9_RetrievalFailsClosed ==
    search.pc \notin {"off"} /\ search.fn = "hybridSearch" =>
        /\ Failed("embed") =>
              /\ search.pc = "threw"
              /\ \A i \in 1..Len(calls) : calls[i].fn # "query"
        /\ Failed("query") => search.pc = "threw"
        /\ search.pc = "threw" => search.out = <<>>
        /\ search.pc = "returned" =>
              /\ search.vq.st = "ok" /\ search.kq.st = "ok"
              /\ \A i \in 1..Len(calls) : calls[i].fn \in {"embed", "query"}
                                            => calls[i].st = "ok"
        /\ (route.pc = "done" /\ search.pc = "threw") => route.res.status = 500

\* the keyword query failed after the vector query had returned rows
C9_Witness ==
    /\ search.pc = "threw" /\ search.fn = "hybridSearch"
    /\ search.vq.st = "ok" /\ Len(search.vq.rows) > 0
    /\ search.kq.st = "failed"
    /\ route.pc = "done" /\ route.res.status = 500

\* C10: after a failed generateText call generateAnswerWithCitations has
\* thrown without a result, and the response of POST /ask is an error.
C10_GenerationFailureSurfaced ==
    Failed("generateText") =>
        /\ ans.pc = "threw"
        /\ ans.result = NoResult
        /\ route.pc = "done" => route.res.status = 500
        /\ route.pc \in {"answer", "done"}

\* the answer call failed and the route has answered 500
C10_Witness ==
    /\ \E i \in GenerateTextCalls : calls[i].purpose = "answer" /\ calls[i].st = "failed"
    /\ route.pc = "done" /\ route.res.status = 500

\* the relevance reply has arrived and does not hold YES in any letter case
NegativeJudgment ==
    /\ ans.relevanceCheck # <<>>
    /\ ~Includes(ToUpperCase(Trim(ans.relevanceCheck[1])), <<"Y", "E", "S">>)

\* the relevance reply has arrived and holds YES
PositiveJudgment ==
    /\ ans.relevanceCheck # <<>>
    /\ Includes(ToUpperCase(Trim(ans.relevanceCheck[1])), <<"Y", "E", "S">>)

AnswerCalls == {i \in GenerateTextCalls : calls[i].purpose = "answer"}
RelevanceCalls == {i \in GenerateTextCalls : calls[i].purpose = "relevance"}

\* C11: after a negative relevance judgment the call has returned the
\* insufficient-information sentence with no citation, and no answer
\* generateText call is made for the request.
C11_GateShortCircuit ==
    NegativeJudgment =>
        /\ Returned
        /\ ans.result.answer = <<NoInfoSentence>>
        /\ Citations = <<>>
        /\ AnswerCalls = {}

\* the gate said NO about two sources
C11_Witness ==
    /\ Returned
    /\ ans.relevanceCheck = <<(<<"N", "O">>)>>
    /\ Len(ans.relevantResults) = 2
    /\ Cardinality(RelevanceCalls) = 1

Fused == search.pc = "fused"
Ids(list) == {list[i].id : i \in 1..Len(list)}
IdSeq(list) == [i \in 1..Len(list) |-> list[i].id]
PositionOf(list, id) == CHOOSE i \in 1..Len(list) : list[i].id = id

\* 1/(k + i + 1) for the 0-based position i of a fragment in a list, 0 when
\* the list does not hold it
RankShare(list, id) ==
    IF id \in Ids(list) THEN <<1, RRF_K + (PositionOf(list, id) - 1) + 1>> ELSE <<0, 1>>

\* the sum of the shares of a fragment over the two lists, as a pair of
\* numerator and denominator that is not reduced
RankSum(id) ==
    LET a == RankShare(search.vectorResults, id)
        b == RankShare(search.keywordResults, id)
    IN <<a[1] * b[2] + b[1] * a[2], a[2] * b[2]>>

SameValue(x, y) == x[1] * y[2] = y[1] * x[2]

\* C12: the fused list holds each fragment id of the union of the two lists
\* exactly once (m + n items for disjoint lists), and the score accumulated
\* for a fragment before normalization is the sum of 1/(k + i + 1) over the
\* lists that hold it at 0-based position i.
C12_FusionCorrectness ==
    Fused =>
        LET union == Ids(search.vectorResults) \cup Ids(search.keywordResults)
        IN /\ Ids(search.out) = union
           /\ Len(search.out) = Cardinality(union)
           /\ Ids(search.vectorResults) \cap Ids(search.keywordResults) = {}
                 => Len(search.out) = Len(search.vectorResults) + Len(search.keywordResults)
           /\ Ids([i \in 1..Len(search.scoresMap) |-> search.scoresMap[i].result]) = union
           /\ \A i \in 1..Len(search.scoresMap) :
                 SameValue(search.scoresMap[i].score,
                           RankSum(search.scoresMap[i].result.id))

\* a list of two fragments and a list of three that holds both of them
C12_Witness ==
    /\ Fused
    /\ Len(search.vectorResults) = 2 /\ Len(search.keywordResults) = 3
    /\ Cardinality(Ids(search.vectorResults) \cap Ids(search.keywordResults)) = 2
    /\ Len(search.out) = 3

\* C13: in a non-empty fused list the largest similarity is exactly 1 and
\* every similarity is in (0, 1]; two empty lists give the empty list, and
\* the divisor is never zero.
C13_Normalization ==
    Fused =>
        /\ search.out # <<>> =>
              /\ \E i \in 1..Len(search.out) : search.out[i].similarity = <<1, 1>>
              /\ \A i \in 1..Len(search.out) :
                    /\ search.out[i].similarity[1] > 0
                    /\ search.out[i].similarity[1] <= search.out[i].similarity[2]
        /\ (search.vectorResults = <<>> /\ search.keywordResults = <<>>)
              => search.out = <<>> /\ search.maxScore = <<1, 1>>
        /\ search.maxScore[1] # 0

\* three fused fragments, the first with similarity 1 and the last below 1
C13_Witness ==
    /\ Fused
    /\ Len(search.out) = 3
    /\ search.out[1].similarity = <<1, 1>>
    /\ search.out[3].similarity[1] < search.out[3].similarity[2]

\* C14: the fused list is in non-increasing order of accumulated score, and
\* fragments of equal score keep their input order, the semantic list first;
\* semantic [F1, F2] and lexical [F2, F3] fuse to F2, F1, F3.
C14_FusionOrdering ==
    Fused =>
        /\ \A i, j \in 1..Len(search.out) : i < j =>
              LET a == search.out[i].id
                  b == search.out[j].id
                  inV(x) == x \in Ids(search.vectorResults)
              IN /\ ~FracLess(RankSum(a), RankSum(b))
                 /\ SameValue(RankSum(a), RankSum(b)) =>
                       /\ inV(b) => inV(a)
                       /\ (inV(a) /\ inV(b)) =>
                             PositionOf(search.vectorResults, a)
                                 < PositionOf(search.vectorResults, b)
                       /\ (~inV(a) /\ ~inV(b)) =>
                             PositionOf(search.keywordResults, a)
                                 < PositionOf(search.keywordResults, b)
        /\ (IdSeq(search.vectorResults) = <<1, 2>> /\ IdSeq(search.keywordResults) = <<2, 3>>)
              => IdSeq(search.out) = <<2, 1, 3>>

\* the lists [F1, F2] and [F2, F3] fused
C14_Witness ==
    /\ Fused
    /\ IdSeq(search.vectorResults) = <<1, 2>>
    /\ IdSeq(search.keywordResults) = <<2, 3>>
    /\ IdSeq(search.out) = <<2, 1, 3>>

\* the 1-based position in the evidence of the source of the j-th citation
CitedNumber(j) ==
    CHOOSE n \in 1..Len(ans.relevantResults) :
        ToCitation(ans.relevantResults[n]) = Citations[j]

\* C15: the citations of a returned result follow the ascending positions of
\* their sources in the evidence handed to the generator, in whatever order
\* the answer text cites them.
C15_CitationsByEvidencePosition ==
    Returned =>
        \E f \in [1..Len(Citations) -> 1..Len(ans.relevantResults)] :
            /\ \A i, j \in 1..Len(Citations) : i < j => f[i] < f[j]
            /\ \A j \in 1..Len(Citations) :
                  Citations[j] = ToCitation(ans.relevantResults[f[j]])

\* the text cites the second source before the first, the citations are the
\* first source and then the second
C15_Witness ==
    /\ Returned
    /\ ans.mode = "internal"
    /\ ans.result.answer = <<"[", "2", "]", "[", "1", "]">>
    /\ Len(Citations) = 2
    /\ Citations[1] = ToCitation(ans.relevantResults[1])
    /\ Citations[2] = ToCitation(ans.relevantResults[2])

\* the 1-based place of the first token [n] among the tokens of the text
FirstUse(text, n) ==
    LET nums == MatchNums(text, 1)
    IN CHOOSE i \in 1..Len(nums) : nums[i] = n /\ \A h \in 1..(i - 1) : nums[h] # n

\* the distinct in-range citation numbers of the returned answer text
UsedNumbers ==
    {n \in CitationTokens(ans.result.answer) : 1 <= n /\ n <= Len(ans.relevantResults)}

\* C16 as stated: a source whose number first appears earlier in the cleaned
\* answer text comes before a source whose number first appears later.
C16_FirstUseOrder ==
    Returned =>
        \A a, b \in 1..Len(Citations) :
            a < b => FirstUse(ans.result.answer, CitedNumber(a))
                         < FirstUse(ans.result.answer, CitedNumber(b))

\* C16: the citation list holds each distinct in-range citation number of the
\* cleaned answer text once and is sorted by that number, ascending: the j-th
\* citation is the source of the j-th smallest number used.
C16_SortedByNumber ==
    Returned =>
        /\ Len(Citations) = Cardinality(UsedNumbers)
        /\ \A j \in 1..Len(Citations) :
              /\ CitedNumber(j) \in UsedNumbers
              /\ Cardinality({m \in UsedNumbers : m <= CitedNumber(j)}) = j

\* a customer answer that uses [2] first and [1] second, and repeats neither
C16_Witness ==
    /\ Returned
    /\ ans.mode = "customer"
    /\ MatchNums(ans.result.answer, 1) = <<2, 1>>
    /\ Len(Citations) = 2
    /\ CitedNumber(1) = 1 /\ CitedNumber(2) = 2

\* C17: a 200 response of POST /search to a request that names a channel id
\* holds only rows whose channel_id is that id, with either search method.
C17_ChannelScoping ==
    (route.pc = "done" /\ route.res.status = 200 /\ route.body.channelId # "") =>
        \A i \in 1..Len(route.res.body.results) :
            store[route.res.body.results[i].id].channel_id = route.body.channelId

\* C18: with N > 0 sources the cleaned text holds, in their order, exactly
\* the citation tokens [n] of the raw text with 1 <= n <= N, so that every
\* token with number 0 or above N is gone; with N = 0 it holds no citation
\* token at all.
C18_StrippingRule ==
    ans.pc = "cleaned" =>
        LET inRange(n) == 1 <= n /\ n <= ans.maxValidCitation
        IN IF ans.maxValidCitation = 0
           THEN MatchNums(ans.cleaned, 1) = <<>>
           ELSE MatchNums(ans.cleaned, 1) = SelectSeq(MatchNums(ans.text, 1), inRange)

C20_GenerationOrder ==
    /\ Cardinality(AnswerCalls) <= 1
    /\ \A a \in AnswerCalls :
          /\ PositiveJudgment
          /\ \E g \in RelevanceCalls : g < a /\ calls[g].st = "ok"
    /\ \A c \in GenerateTextCalls :
          /\ ans.pc # "off"
          /\ calls[c].sources # <<>>
          /\ calls[c].sources = FilterByMode(ans.searchResults, ans.mode)
          /\ ans.mode = "customer" =>
                \A i \in 1..Len(calls[c].sources) : calls[c].sources[i].is_customer_safe

\* a customer request with an internal-only and a customer-safe source whose
\* answer call follows a relevance call
C20_Witness ==
    /\ ans.mode = "customer"
    /\ Len(ans.searchResults) = 2 /\ Len(ans.relevantResults) = 1
    /\ Cardinality(RelevanceCalls) = 1
    /\ Cardinality(AnswerCalls) = 1
    /\ \A a \in AnswerCalls : Len(calls[a].sources) = 1

HybridRunning == search.pc \in {"embed", "query", "returned", "threw"}
HybridReturned == search.pc = "returned" /\ search.fn = "hybridSearch"
QueryCalls(which) == {i \in 1..Len(calls) : calls[i].fn = "query" /\ calls[i].which = which}

\* C21: hybridSearch issues the two store queries together; nothing is fused
\* while one of them is out, and the list returned is the fusion of the two
\* complete results, whichever of them settled first.
C21_JoinBeforeFusion ==
    (HybridRunning /\ search.fn = "hybridSearch") =>
        /\ (QueryCalls("vector") = {}) = (QueryCalls("keyword") = {})
        /\ search.pc = "query" => search.vq.st # "none" /\ search.kq.st # "none"
        /\ (search.pc # "returned") => search.out = <<>>
        /\ search.pc = "returned" =>
              /\ search.vq.st = "ok" /\ search.kq.st = "ok"
              /\ \A w \in {"vector", "keyword"} :
                    \A i \in QueryCalls(w) : calls[i].st = "ok"
              /\ search.out =
                     ThresholdAndLimit(
                         reciprocalRankFusion(search.vq.rows, search.kq.rows, RRF_K),
                         search.minSimilarity, search.limit)

\* both queries came back with two rows and the fused list is returned
C21_Witness ==
    /\ HybridReturned
    /\ Len(search.vq.rows) = 2 /\ Len(search.kq.rows) = 2
    /\ search.vq.rows[1].id # search.kq.rows[1].id
    /\ Len(search.out) = 2

\* the candidate is a stored row that passes the filters of the running search
PassesFilters(r) ==
    /\ r.id \in 1..Len(store)
    /\ r.is_customer_safe = store[r.id].is_customer_safe
    /\ r.channel_id = store[r.id].channel_id
    /\ search.customerSafeOnly => store[r.id].is_customer_safe
    /\ search.channelId # "" => store[r.id].channel_id = search.channelId

\* C22: with customerSafeOnly every row of the semantic list, of the lexical
\* list and of the list hybridSearch returns is customer-safe, with channelId
\* every one of them is of that channel, and each of the two lists has at most
\* 2 x limit rows.
C22_SameFiltersBothChannels ==
    (HybridRunning /\ search.fn = "hybridSearch" /\ search.pc # "embed") =>
        /\ \A i \in 1..Len(search.vq.rows) : PassesFilters(search.vq.rows[i])
        /\ \A i \in 1..Len(search.kq.rows) : PassesFilters(search.kq.rows[i])
        /\ \A i \in 1..Len(search.out) : PassesFilters(search.out[i])
        /\ Len(search.vq.rows) <= 2 * search.limit
        /\ Len(search.kq.rows) <= 2 * search.limit

\* a customer-safe search in channel C1 over a table that also holds an
\* internal-only row of C1 and a customer-safe row of C2 returns the one row
\* that both lists hold
C22_Witness ==
    /\ HybridReturned
    /\ search.customerSafeOnly /\ search.channelId = "C1"
    /\ \E i, j \in 1..Len(store) :
           /\ ~store[i].is_customer_safe /\ store[i].channel_id = "C1"
           /\ store[j].is_customer_safe /\ store[j].channel_id = "C2"
    /\ Len(search.vq.rows) = 1 /\ Len(search.kq.rows) = 1
    /\ Len(search.out) = 1

Chunked == route.pc = "chunked"
ThreadChunks == {c \in 1..Len(route.chunks) : route.chunks[c].isThread}
StandaloneChunks == {c \in 1..Len(route.chunks) : ~route.chunks[c].isThread}
ThreadIds ==
    {route.messages[i].thread_ts : i \in 1..Len(route.messages)} \ {""}

\* the texts of the messages with a '---' line between two of them
SeparatedTexts(content, messages) ==
    /\ Len(content) = 2 * Len(messages) - 1
    /\ \A j \in 1..Len(messages) : content[2 * j - 1] = messages[j].text
    /\ \A j \in 1..(Len(messages) - 1) : content[2 * j] = "\n---\n"

\* C23: chunkMessages gives one thread chunk per distinct thread_ts, with the
\* messages of that thread in input order and their texts joined by '---'
\* lines, and one standalone chunk of one message, without threadTs, per
\* message that has no thread_ts; every message is in exactly one chunk, and
\* no message gives no chunk.
C23_ChunksPartitionInput ==
    Chunked =>
        LET M == route.messages
            C == route.chunks
        IN /\ \A t \in ThreadIds :
                 /\ Cardinality({c \in ThreadChunks : C[c].threadTs = t}) = 1
                 /\ \A c \in ThreadChunks : C[c].threadTs = t =>
                       LET ofThread(msg) == msg.thread_ts = t
                       IN /\ C[c].messages = SelectSeq(M, ofThread)
                          /\ SeparatedTexts(C[c].content, C[c].messages)
           /\ \A c \in ThreadChunks : C[c].threadTs \in ThreadIds
           /\ \A c \in StandaloneChunks :
                 /\ "threadTs" \notin DOMAIN C[c]
                 /\ Len(C[c].messages) = 1
                 /\ C[c].messages[1].thread_ts = ""
                 /\ C[c].content = <<C[c].messages[1].text>>
           /\ \A i \in 1..Len(M) :
                 Cardinality({p \in {q \in (1..Len(C)) \X (1..Len(M)) :
                                        q[2] <= Len(C[q[1]].messages)} :
                                 C[p[1]].messages[p[2]] = M[i]}) = 1
           /\ M = <<>> => C = <<>>

\* a starter without thread_ts followed by two replies of one thread: one
\* thread chunk of the two replies and one standalone chunk
C23_Witness ==
    /\ Chunked
    /\ Len(route.messages) = 3
    /\ route.messages[1].thread_ts = ""
    /\ route.messages[2].thread_ts = "T1" /\ route.messages[3].thread_ts = "T1"
    /\ Len(route.chunks) = 2
    /\ route.chunks[1].isThread /\ Len(route.chunks[1].messages) = 2
    /\ ~route.chunks[2].isThread

Classifying == route.pc \in {"classifying", "classified"}
ClassifyCalls == {i \in GenerateTextCalls : calls[i].purpose = "classify"}

\* the result of a quick filter: not indexed, not a source of truth, and no
\* call of the language model
SkippedWithoutCall(word) ==
    /\ route.pc = "classified"
    /\ route.result.shouldIndex = FALSE
    /\ route.result.isSourceOfTruth = FALSE
    /\ Includes(route.result.reason, word)
    /\ ClassifyCalls = {}

\* C24: a content that is empty or has fewer than 10 characters after
\* trimming is skipped without a call of the language model with a reason
\* that mentions 'short', whether or not it matches a system pattern; any
\* other content that matches a system pattern in any letter case is skipped
\* without a call with a reason that mentions 'System'.
C24_QuickFilters ==
    Classifying =>
        LET content == route.content
            short == \/ content = <<>>
                     \/ \A i \in 1..Len(content) : content[i] \in WhiteSpace
                     \/ Len(Trim(content)) < 10
            system == \E p \in SystemPatterns :
                          \E i \in 1..Len(content) :
                              /\ i + Len(p) - 1 <= Len(content)
                              /\ \A j \in 1..Len(p) :
                                    UpperChar(content[i + j - 1]) = UpperChar(p[j])
        IN /\ short => SkippedWithoutCall(<<"s", "h", "o", "r", "t">>)
           /\ (~short /\ system) => SkippedWithoutCall(<<"S", "y", "s", "t", "e", "m">>)

\* a content of nine characters between blanks is skipped as short
C24_Witness ==
    /\ route.pc = "classified"
    /\ Len(route.content) = 12 /\ Len(Trim(route.content)) = 9
    /\ route.result.reason = MessageTooShort
    /\ calls = <<>>

\* C25: in a 200 response of POST /ask the index of a citation is the 1-based
\* position, in the evidence handed to the generator, of the source it names,
\* which is the number the answer text uses for that source.
C25_IndexIsCitationNumber ==
    (route.pc = "done" /\ route.res.status = 200) =>
        \A i \in 1..Len(route.res.body.citations) :
            LET cite == route.res.body.citations[i]
            IN /\ cite.index \in 1..Len(ans.relevantResults)
               /\ ans.relevantResults[cite.index].source_id = cite.source_id
               /\ cite.index \in CitationTokens(route.res.body.answer)

\* C26: cleaning a cleaned text again with the same number of sources gives
\* the same text, so no removal of a token makes a new token out of the
\* characters around it.
C26_CleanIdempotent ==
    ans.pc = "cleaned" =>
        /\ cleanInvalidCitations(ans.cleaned, ans.maxValidCitation) = ans.cleaned
        /\ Len(MatchNums(ans.cleaned, 1)) <= Len(MatchNums(ans.text, 1))
        /\ Range(MatchNums(ans.cleaned, 1)) \subseteq Range(MatchNums(ans.text, 1))

\* the fused list of the two results of the running search
Merged == reciprocalRankFusion(search.vq.rows, search.kq.rows, RRF_K)

\* the places of a fused list whose similarity reaches the threshold
PassingOf(merged) ==
    {i \in 1..Len(merged) :
        merged[i].similarity[1] * search.minSimilarity[2]
            >= search.minSimilarity[1] * merged[i].similarity[2]}

Passing == PassingOf(Merged)

\* C27: hybridSearch returns at most limit candidates, each with a fused
\* similarity of at least minSimilarity, in non-increasing order of
\* similarity; the j-th candidate returned is the j-th candidate of the fused
\* list that reaches the threshold, so none that reaches it is passed over.
C27_ThresholdThenLimit ==
    HybridReturned =>
        LET merged == Merged
            passing == PassingOf(merged)
            out == search.out
        IN /\ Len(out) <= search.limit
           /\ Len(out) = IF Cardinality(passing) < search.limit
                         THEN Cardinality(passing) ELSE search.limit
           /\ \A j \in 1..Len(out) :
                 /\ out[j].similarity[1] * search.minSimilarity[2]
                        >= search.minSimilarity[1] * out[j].similarity[2]
                 /\ \E i \in passing :
                       /\ Cardinality({h \in passing : h <= i}) = j
                       /\ out[j] = merged[i]
           /\ \A i, j \in 1..Len(out) :
                 i < j => ~FracLess(out[i].similarity, out[j].similarity)

\* three fused candidates of which one reaches the threshold 1, and a limit
\* of two
C27_Witness ==
    /\ HybridReturned
    /\ search.limit = 2 /\ search.minSimilarity = <<1, 1>>
    /\ Len(Merged) = 3 /\ Cardinality(Passing) = 1
    /\ Len(search.out) = 1

\* C28: with a limit of at least 1 and a threshold of at most 1, hybridSearch
\* returns the empty list only if both store queries returned no row, since
\* the first fused candidate has similarity 1.
C28_ThresholdKeepsTop ==
    (HybridReturned /\ search.limit >= 1 /\ ~FracLess(<<1, 1>>, search.minSimilarity)) =>
        /\ search.out = <<>> => (search.vq.rows = <<>> /\ search.kq.rows = <<>>)
        /\ search.out # <<>> => search.out[1].similarity = <<1, 1>>

\* the threshold is 1, only the semantic query found a row, and it is returned
C28_Witness ==
    /\ HybridReturned
    /\ search.minSimilarity = <<1, 1>>
    /\ Len(search.vq.rows) = 1 /\ search.kq.rows = <<>>
    /\ Len(search.out) = 1

SafetyCalls == {i \in GenerateTextCalls : calls[i].purpose = "safety"}

\* the safety call for the chunk at hand resolved with a reply that is, after
\* trimming and in upper case, the word CUSTOMER_SAFE and nothing else
ExplicitVerdict ==
    \E i \in SafetyCalls :
        /\ calls[i].st = "ok"
        /\ calls[i].content = route.content
        /\ LET reply == calls[i].reply[1]
               word == SelectSeq(reply, LAMBDA c : c \notin WhiteSpace)
           IN /\ Len(Trim(reply)) = Len(CUSTOMER_SAFE)
              /\ \A j \in 1..Len(word) : UpperChar(word[j]) = CUSTOMER_SAFE[j]
              /\ Len(word) = Len(CUSTOMER_SAFE)

\* C29: isCustomerSafe has returned true exactly if the classifier call
\* resolved with the reply CUSTOMER_SAFE, up to letter case and blanks around
\* it; after a rejected call or any other reply it has returned false, and the
\* row ingestion stores carries that value, so that a stored row is flagged
\* customer-safe only after that verdict on its content.
C29_SafetyFailsClosed ==
    (route.pc \in {"embed", "user", "insert", "stored"}) =>
        /\ Cardinality(SafetyCalls) = 1
        /\ route.customerSafe = ExplicitVerdict
        /\ (\E i \in SafetyCalls : calls[i].st = "failed") => ~route.customerSafe
        /\ route.pc = "stored" =>
              store[Len(store)].is_customer_safe = ExplicitVerdict

\* a chunk is stored as customer-safe after the reply ' customer_safe' and a
\* line break
C29_Witness ==
    /\ route.pc = "stored"
    /\ store[Len(store)].is_customer_safe
    /\ \E i \in SafetyCalls : calls[i].reply[1] # CUSTOMER_SAFE /\ calls[i].st = "ok"

====
